---- MODULE Spec2Model ----
(***************************************************************************)
(* A model of vector.h: RawMemory<T>, a block of raw slots, and Vector<T>, *)
(* the sequence that keeps the first size_ slots of its block alive.       *)
(*                                                                         *)
(* A slot of a block is Raw (no object lives there), Default (a live       *)
(* value-initialized object) or a live object holding one of Values.       *)
(* Every public operation is one                                           *)
(* action; the operation itself is an operator from the object(s) and the  *)
(* arguments to a result record, written after the body of the C++ code.   *)
(***************************************************************************)
EXTENDS Integers, Sequences, FiniteSets, TLC

\* ---------------------------------------------------------------- bounds
MaxCap == 4          \* the Vectors never hold more than MaxCap slots together
MaxVal == 1          \* the values given to new elements are 1..MaxVal
NumPush == 5         \* how many appends the move-from comparison follows

\* ------------------------------------------------------- slots and types
Raw == -2            \* uninitialized memory
Default == 0         \* T(): the value-initialized object
Values == 1..MaxVal
Names == {"a", "b"}  \* the Vector objects of the program
Null == 0            \* nullptr
Block == 1           \* the address of an allocated block; a block is told
                     \* from another by the object that owns it

\* The element types T the template is instantiated with:
\*   Trivial    an int: moving copies, nothing throws
\*   NoThrow    nothrow-move-constructible class: moved, copying may throw
\*   Copying    copyable class whose move may throw: transferred by copy
\*   MoveOnly   class that cannot be copied and whose move may throw
\* A class object that is moved from is left holding the default value, as
\* a std::string or a std::unique_ptr is.
ETypes == {"Trivial", "NoThrow", "Copying", "MoveOnly"}

Live(x) == x # Raw

Min(x, y) == IF x <= y THEN x ELSE y

\* the object a move leaves behind in its source
MovedFrom(T, x) == IF T = "Trivial" THEN x ELSE Default

\* a transfer policy that moves whatever the type
TransferMovesAlways(T) == TRUE

\* std::is_nothrow_move_constructible_v<T> || !std::is_copy_constructible_v<T>
TransferMoves(T) == T \in {"Trivial", "NoThrow", "MoveOnly"}

\* may moving (construction or assignment) an element throw
MoveThrows(T) == T \in {"Copying", "MoveOnly"}
\* may constructing an element (from arguments, by copy, by value) throw
CtorThrows(T) == T # "Trivial"
Copyable(T) == T # "MoveOnly"

\* ------------------------------------------------------------ RawMemory
\* buffer_, capacity_ and (mem) the slots the buffer points at
RawMemoryNull == [buffer_ |-> Null, capacity_ |-> 0, mem |-> << >>]

Allocate(n) == IF n # 0 THEN Block ELSE Null

\* explicit RawMemory(size_t capacity)
RawMemoryNew(capacity) ==
  [buffer_ |-> Allocate(capacity), capacity_ |-> capacity,
   mem |-> [i \in 1..capacity |-> Raw]]

\* RawMemory::Swap applied to the pair <<this, other>>
RawSwap(this, other) == <<other, this>>

\* RawMemory(RawMemory&& other): this starts {nullptr, 0}, then Swap(other)
RawMoveCtor(other) == RawSwap(RawMemoryNull, other)

\* operator=(RawMemory&& rhs), this # &rhs
RawMoveAssign(this, rhs) == RawSwap(this, rhs)

\* --------------------------------------------------------------- Vector
VectorDefault == [data_ |-> RawMemoryNull, size_ |-> 0]

Size(v) == v.size_
Capacity(v) == v.data_.capacity_
Buffer(v) == v.data_.buffer_
Mem(v) == v.data_.mem
\* the values of the elements at indices [0, Size())
Elems(v) == [i \in 1..Min(v.size_, Len(Mem(v))) |-> Mem(v)[i]]
\* indices (0-based) of the slots that hold a live object
LiveSlots(v) == {i \in 0..(Capacity(v) - 1) : Live(Mem(v)[i + 1])}
WithMem(v, m) == [v EXCEPT !.data_.mem = m]

\* What an operation on one Vector leaves: the object, how the call ended
\* ("ok", "throw", "ub": undefined behaviour ended the program, "hang": the
\* call never returns), the index it returns (-1: none), the slots
\* <<block, index>> whose destructor it ran (block "data_": the block the
\* object held when called, "new_data": the block the call allocated), and
\* how many live objects it lost without running their destructor.
Result(v, outcome, ret, destroyed, leaked) ==
  [v |-> v, outcome |-> outcome, ret |-> ret, destroyed |-> destroyed,
   leaked |-> leaked]

LiveCount(m) == Cardinality({i \in 1..Len(m) : Live(m[i])})

\* std::destroy_n(buf + first, n) on the slots m
DestroyN(m, first, n) ==
  [i \in 1..Len(m) |-> IF first < i /\ i <= first + n THEN Raw ELSE m[i]]
DestroyedN(blk, first, n) == {<<blk, i>> : i \in first..(first + n - 1)}

\* SafeMemoryTransfer(begin, size, new_address_begin): begin = src + from,
\* new_address_begin = dst + to.  fail = k > 0: constructing the k-th
\* element throws; std::uninitialized_move_n / _copy_n then destroy the
\* k - 1 objects they had constructed.  A move leaves its source moved-from.
SafeMemoryTransfer(T, src, from, size, dst, to, fail) ==
  LET throws == 1 <= fail /\ fail <= size
      done == IF throws THEN fail - 1 ELSE size
      src2 == IF TransferMoves(T)
              THEN [i \in 1..Len(src) |->
                      IF from < i /\ i <= from + done
                      THEN MovedFrom(T, src[i]) ELSE src[i]]
              ELSE src
      dst2 == IF throws THEN dst
              ELSE [i \in 1..Len(dst) |->
                      IF to < i /\ i <= to + size
                      THEN src[i - to + from] ELSE dst[i]]
  IN [src |-> src2, dst |-> dst2, ok |-> ~throws,
      undone |-> IF throws THEN to..(to + done - 1) ELSE {}]

\* FullSafeMemoryTransfer(data_.GetAddress(), Size(), new_data, new_data.GetAddress())
\* followed by the destructor of the caller's local new_data, which frees a
\* block without destroying what lives in it.
FullSafeMemoryTransfer(T, v, new_data, fail) ==
  LET tr == SafeMemoryTransfer(T, Mem(v), 0, Size(v), new_data.mem, 0, fail)
      old == DestroyN(tr.src, 0, Size(v))
  IN IF ~tr.ok
     THEN Result(WithMem(v, tr.src), "throw", -1,
                 {<<"new_data", i>> : i \in tr.undone},
                 LiveCount(tr.dst))
     ELSE Result([v EXCEPT !.data_ = [new_data EXCEPT !.mem = tr.dst]],
                 "ok", -1, DestroyedN("data_", 0, Size(v)), LiveCount(old))

\* a Reserve that reallocates whatever the capacity asked for
ReserveAlways(T, v, new_capacity, fail) ==
  FullSafeMemoryTransfer(T, v,
    RawMemoryNew(IF new_capacity < Size(v) THEN Size(v) ELSE new_capacity),
    fail)

\* void Reserve(size_t new_capacity)
Reserve(T, v, new_capacity, fail) ==
  IF new_capacity <= Capacity(v)
  THEN Result(v, "ok", -1, {}, 0)
  ELSE FullSafeMemoryTransfer(T, v, RawMemoryNew(new_capacity), fail)

\* a growth by one slot
GrownCapacityByOne(v) == Capacity(v) + 1

\* the capacity of the block a full Vector grows into
GrownCapacity(v) == IF Size(v) = 0 THEN 1 ELSE Capacity(v) * 2

\* an EmplaceBack that grows without transferring the old elements
EmplaceBackNoTransfer(T, v, x, fail) ==
  LET new_data == IF Size(v) < Capacity(v) THEN v.data_
                  ELSE RawMemoryNew(GrownCapacity(v))
  IN Result([data_ |-> [new_data EXCEPT !.mem[Size(v) + 1] = x],
             size_ |-> Size(v) + 1], "ok", Size(v), {}, 0)

\* T& EmplaceBack(Args&&...), PushBack(F&&).  fail = 1: constructing the new
\* element throws; fail = k + 1: transferring the k-th old element throws.
EmplaceBack(T, v, x, fail) ==
  IF Size(v) < Capacity(v)
  THEN IF fail = 1 THEN Result(v, "throw", -1, {}, 0)
       ELSE Result([v EXCEPT !.data_.mem[Size(v) + 1] = x,
                             !.size_ = Size(v) + 1],
                   "ok", Size(v), {},
                   IF Live(Mem(v)[Size(v) + 1]) THEN 1 ELSE 0)
  ELSE LET new_data == RawMemoryNew(GrownCapacity(v))
           built == [new_data EXCEPT !.mem[Size(v) + 1] = x]
           r == FullSafeMemoryTransfer(T, v, built,
                                       IF fail > 1 THEN fail - 1 ELSE 0)
       IN IF fail = 1 THEN Result(v, "throw", -1, {}, 0)
          ELSE IF r.outcome = "throw" THEN r
          ELSE [r EXCEPT !.v.size_ = Size(v) + 1, !.ret = Size(v)]

\* void PopBack(): std::destroy_at(data_.GetAddress() + size_); --size_;
\* The destructor runs on the slot one past the last element.  No object
\* lives there unless an earlier PopBack left one: it is undefined
\* behaviour for a T with a destructor (ub tells whether it ends the
\* program), and no-op for a trivial T.
PopBackTarget(v) == Size(v)
PopBackHasUB(T, v) ==
  /\ T # "Trivial"
  /\ \/ PopBackTarget(v) >= Capacity(v)
     \/ ~Live(Mem(v)[PopBackTarget(v) + 1])
PopBack(T, v, ub) ==
  LET at == PopBackTarget(v)
      m == IF at < Capacity(v) THEN DestroyN(Mem(v), at, 1) ELSE Mem(v)
  IN IF ub THEN Result(v, "ub", -1, {<<"data_", at>>}, 0)
     ELSE Result([WithMem(v, m) EXCEPT !.size_ = Size(v) - 1], "ok", -1,
                 {<<"data_", at>>}, 0)

\* a sized constructor that allocates and constructs nothing
VectorSizedRaw(size, fail) ==
  Result([data_ |-> RawMemoryNew(size), size_ |-> size], "ok", -1, {}, 0)

\* explicit Vector(size_t size): std::uninitialized_value_construct_n;
\* fail = k > 0: value-constructing the k-th element throws, the k - 1
\* before it are destroyed and no Vector is constructed.
VectorSized(size, fail) ==
  LET data == RawMemoryNew(size)
  IN IF 1 <= fail /\ fail <= size
     THEN Result(VectorDefault, "throw", -1,
                 DestroyedN("data_", 0, fail - 1), 0)
     ELSE Result([data_ |-> [data EXCEPT !.mem = [i \in 1..size |-> Default]],
                  size_ |-> size], "ok", -1, {}, 0)

\* a copy constructor that allocates as many slots as the source has
VectorCopyCapacity(other, fail) ==
  Result([data_ |-> [RawMemoryNew(Capacity(other)) EXCEPT !.mem =
                       [i \in 1..Capacity(other) |->
                          IF i <= Size(other) THEN Mem(other)[i] ELSE Raw]],
          size_ |-> Size(other)], "ok", -1, {}, 0)

\* Vector(const Vector& other): std::uninitialized_copy_n
VectorCopy(other, fail) ==
  LET data == RawMemoryNew(Size(other))
  IN IF 1 <= fail /\ fail <= Size(other)
     THEN Result(VectorDefault, "throw", -1,
                 DestroyedN("data_", 0, fail - 1), 0)
     ELSE Result([data_ |-> [data EXCEPT !.mem = Elems(other)],
                  size_ |-> Size(other)], "ok", -1, {}, 0)

\* What an operation on two Vectors leaves.
Result2(this, other, outcome, destroyed, leaked) ==
  [this |-> this, other |-> other, outcome |-> outcome,
   destroyed |-> destroyed, leaked |-> leaked]

\* Vector(Vector&& other) noexcept
VectorMove(other) ==
  LET d == RawMoveCtor(other.data_)
  IN Result2([data_ |-> d[1], size_ |-> Size(other)],
             [data_ |-> d[2], size_ |-> 0], "ok", {}, 0)

\* ~Vector(): std::destroy_n(data_.GetAddress(), size_), then ~RawMemory
\* frees the block
VectorDtor(v) ==
  Result(VectorDefault, "ok", -1, DestroyedN("data_", 0, Size(v)),
         LiveCount(DestroyN(Mem(v), 0, Size(v))))

\* void Swap(Vector& other) noexcept
Swap(this, other) ==
  LET d == RawSwap(this.data_, other.data_)
  IN Result2([data_ |-> d[1], size_ |-> Size(other)],
             [data_ |-> d[2], size_ |-> Size(this)], "ok", {}, 0)

\* a move assignment that takes the size of rhs and leaves the blocks
MoveAssignSizeOnly(this, rhs) ==
  Result2([this EXCEPT !.size_ = Size(rhs)], [rhs EXCEPT !.size_ = 0],
          "ok", {}, 0)

\* Vector& operator=(Vector&& rhs) noexcept, this # &rhs
MoveAssign(this, rhs) ==
  LET d == RawMoveAssign(this.data_, rhs.data_)
  IN Result2([data_ |-> d[1], size_ |-> Size(rhs)],
             [data_ |-> d[2], size_ |-> 0], "ok", {}, 0)

\* std::copy_n(src, n, dst): copy assignment of the first n elements;
\* fail = k in 1..n: the k-th assignment throws, k - 1 are done
CopyN(src, n, dst, fail) ==
  LET done == IF 1 <= fail /\ fail <= n THEN fail - 1 ELSE n
  IN [i \in 1..Len(dst) |-> IF i <= done THEN src[i] ELSE dst[i]]

\* a copy assignment that always builds a fresh copy and swaps it in
CopyAssignFresh(this, rhs, fail) ==
  Result2(VectorCopy(rhs, 0).v, rhs, "ok", DestroyedN("data_", 0, Size(this)), 0)

\* Vector& operator=(const Vector& rhs), this # &rhs.  fail = k > 0: the
\* k-th element copy of the call (an assignment or a construction) throws.
CopyAssign(this, rhs, fail) ==
  IF Size(rhs) > Capacity(this)
  THEN LET rhs_copy == VectorCopy(rhs, fail)
           sw == Swap(this, rhs_copy.v)
           gone == VectorDtor(sw.other)
       IN IF rhs_copy.outcome = "throw"
          THEN Result2(this, rhs, "throw", rhs_copy.destroyed, 0)
          ELSE Result2(sw.this, rhs, "ok", gone.destroyed, gone.leaked)
  ELSE IF Size(rhs) < Size(this)
  THEN LET m == CopyN(Mem(rhs), Size(rhs), Mem(this), fail)
       IN IF 1 <= fail /\ fail <= Size(rhs)
          THEN Result2(WithMem(this, m), rhs, "throw", {}, 0)
          ELSE Result2([data_ |-> [this.data_ EXCEPT !.mem =
                          DestroyN(m, Size(rhs), Size(this) - Size(rhs))],
                        size_ |-> Size(rhs)], rhs, "ok",
                       {<<"data_", i>> : i \in Size(rhs)..(Size(this) - 1)},
                       0)
  ELSE LET m == CopyN(Mem(rhs), Size(this), Mem(this), fail)
           built == [i \in 1..Len(m) |->
                       IF Size(this) < i /\ i <= Size(rhs)
                       THEN Mem(rhs)[i] ELSE m[i]]
           lost == Cardinality({i \in (Size(this) + 1)..Size(rhs) : Live(m[i])})
       IN IF 1 <= fail /\ fail <= Size(this)
          THEN Result2(WithMem(this, m), rhs, "throw", {}, 0)
          ELSE IF Size(this) < fail /\ fail <= Size(rhs)
          THEN Result2(WithMem(this, DestroyN(m, Size(this),
                                              fail - 1 - Size(this))),
                       rhs, "throw",
                       {<<"data_", i>> : i \in Size(this)..(fail - 2)}, 0)
          ELSE Result2([data_ |-> [this.data_ EXCEPT !.mem = built],
                        size_ |-> Size(rhs)], rhs, "ok", {}, lost)

\* The loop of Resize: while (new_size > Capacity()) Reserve(capacity * 2);
\* capacity is the local computed before the loop and never updated.  An
\* iteration that leaves the Vector as it found it is followed by the same
\* iteration for ever: the call hangs.
RECURSIVE ResizeLoop(_, _, _, _, _)
ResizeLoop(T, v, new_size, capacity, fail) ==
  IF ~(new_size > Capacity(v))
  THEN Result(v, "ok", -1, {}, 0)
  ELSE LET r == Reserve(T, v, capacity * 2, fail)
       IN IF r.outcome = "throw" THEN r
          ELSE IF r.v = v THEN Result(v, "hang", -1, {}, 0)
          ELSE LET rest == ResizeLoop(T, r.v, new_size, capacity, 0)
               IN [rest EXCEPT !.destroyed = r.destroyed \cup rest.destroyed,
                               !.leaked = r.leaked + rest.leaked]

\* the local `capacity` of Resize
ResizeCapacity(v) == IF Size(v) = 0 THEN 1 ELSE Capacity(v)

\* how many element transfers the growth of Resize(new_size) performs
ResizeTransfers(v, new_size) ==
  IF new_size > Capacity(v) /\ ResizeCapacity(v) * 2 > Capacity(v)
  THEN Size(v) ELSE 0

\* a Resize that only sets size_ when it shrinks and does nothing else
ResizeSizeOnly(T, v, new_size, fail) ==
  Result(IF new_size <= Size(v) THEN [v EXCEPT !.size_ = new_size] ELSE v,
         "ok", -1, {}, 0)

\* void Resize(size_t new_size).  fail = k > 0: the k-th element operation
\* of the call throws: first the transfers of Reserve, then the value
\* constructions of std::uninitialized_value_construct_n.
Resize(T, v, new_size, fail) ==
  IF new_size < Size(v)
  THEN Result([WithMem(v, DestroyN(Mem(v), new_size, Size(v) - new_size))
                 EXCEPT !.size_ = new_size], "ok", -1,
              DestroyedN("data_", new_size, Size(v) - new_size), 0)
  ELSE IF new_size > Size(v)
  THEN LET nt == ResizeTransfers(v, new_size)
           grown == ResizeLoop(T, v, new_size, ResizeCapacity(v),
                               IF fail <= nt THEN fail ELSE 0)
           w == grown.v
           k == fail - nt
           throws == 1 <= k /\ k <= new_size - Size(v)
           built == [i \in 1..Len(Mem(w)) |->
                       IF Size(v) < i /\ i <= new_size THEN Default
                       ELSE Mem(w)[i]]
           lost == Cardinality({i \in (Size(v) + 1)..new_size : Live(Mem(w)[i])})
       IN IF grown.outcome # "ok" THEN grown
          ELSE IF throws
          THEN Result(WithMem(w, DestroyN(Mem(w), Size(v), k - 1)), "throw", -1,
                      grown.destroyed \cup DestroyedN("data_", Size(v), k - 1),
                      grown.leaked)
          ELSE Result([WithMem(w, built) EXCEPT !.size_ = new_size], "ok", -1,
                      grown.destroyed, grown.leaked + lost)
  ELSE Result(v, "ok", -1, {}, 0)

\* Emplace with Size() < Capacity() (lines 239-243).  Element operations in
\* order: 1 the move construction of the last element into end(); then the
\* s move assignments of std::move_backward; then s + 2, the construction
\* of the temporary T(args...) that is assigned to data_[pos_ind].
\* With pos_ind = Size() the range [begin() + pos_ind, end() - 1) is not a
\* range (and with Size() = 0, *(end() - 1) is outside the block):
\* undefined behaviour, which either ends the program (ub) or passes with
\* move_backward moving nothing and, for an empty Vector, an unspecified
\* object built in slot 0.
EmplaceShifts(v, pos_ind) == IF pos_ind < Size(v) THEN Size(v) - 1 - pos_ind ELSE 0
EmplaceSpareHasUB(v, pos_ind) == pos_ind = Size(v)
EmplaceSpare(T, v, pos_ind, x, fail, ub) ==
  LET n == Size(v)
      m0 == Mem(v)
      s == EmplaceShifts(v, pos_ind)
      mA == [i \in 1..Len(m0) |->
               IF i = n + 1 THEN (IF n > 0 THEN m0[n] ELSE Default)
               ELSE IF i = n THEN MovedFrom(T, m0[n])
               ELSE m0[i]]
      lostA == IF Live(m0[n + 1]) THEN 1 ELSE 0
      done == IF 2 <= fail /\ fail <= s + 1 THEN fail - 2 ELSE s
      mB == [i \in 1..Len(m0) |->
               IF n - done < i /\ i <= n THEN mA[i - 1]
               ELSE IF i = n - done /\ done >= 1 THEN MovedFrom(T, mA[i])
               ELSE mA[i]]
      mC == [mB EXCEPT ![pos_ind + 1] = x]
  IN IF ub THEN Result(v, "ub", -1, {}, 0)
     ELSE IF fail = 1 THEN Result(v, "throw", -1, {}, 0)
     ELSE IF fail >= 2
     THEN Result(WithMem(v, mB), "throw", -1, {}, lostA)
     ELSE Result([WithMem(v, mC) EXCEPT !.size_ = n + 1], "ok", pos_ind, {},
                 lostA)

\* Emplace with Size() = Capacity() (lines 244-263).  Element operations in
\* order: 1 the construction of the new element in the new block, then the
\* transfers of the pos_ind elements before it, then of those after it.
EmplaceGrow(T, v, pos_ind, x, fail) ==
  LET n == Size(v)
      new_data == RawMemoryNew(GrownCapacity(v))
      built == [new_data.mem EXCEPT ![pos_ind + 1] = x]
      t1 == SafeMemoryTransfer(T, Mem(v), 0, pos_ind, built, 0,
                               IF fail > 1 THEN fail - 1 ELSE 0)
      caught1 == DestroyN(t1.dst, pos_ind, 1)
      t2 == SafeMemoryTransfer(T, t1.src, pos_ind, n - pos_ind, t1.dst,
                               pos_ind + 1,
                               IF fail > 1 + pos_ind THEN fail - 1 - pos_ind ELSE 0)
      caught2 == DestroyN(t2.dst, 0, pos_ind + 1)
      old == DestroyN(t2.src, 0, n)
  IN IF fail = 1 THEN Result(v, "throw", -1, {}, 0)
     ELSE IF ~t1.ok
     THEN Result(WithMem(v, t1.src), "throw", -1,
                 {<<"new_data", i>> : i \in t1.undone \cup {pos_ind}},
                 LiveCount(caught1))
     ELSE IF ~t2.ok
     THEN Result(WithMem(v, t2.src), "throw", -1,
                 {<<"new_data", i>> : i \in t2.undone \cup 0..pos_ind},
                 LiveCount(caught2))
     ELSE Result([data_ |-> [new_data EXCEPT !.mem = t2.dst], size_ |-> n + 1],
                 "ok", pos_ind, DestroyedN("data_", 0, n), LiveCount(old))

\* iterator Emplace(const_iterator pos, Args&&...), Insert(pos, value);
\* pos_ind = pos - cbegin()
Emplace(T, v, pos_ind, x, fail, ub) ==
  IF Size(v) < Capacity(v)
  THEN EmplaceSpare(T, v, pos_ind, x, fail, ub)
  ELSE EmplaceGrow(T, v, pos_ind, x, fail)

\* an Erase that destructs the slot past the last element
EraseDestroysPastEnd(T, v, i, fail) ==
  LET n == Size(v)
      s == n - 1 - i
      m0 == Mem(v)
      shifted == [j \in 1..Len(m0) |->
                    IF i < j /\ j <= i + s THEN m0[j + 1]
                    ELSE IF j = i + s + 1 /\ s >= 1 THEN MovedFrom(T, m0[j])
                    ELSE m0[j]]
  IN Result([WithMem(v, DestroyN(shifted, n, 1)) EXCEPT !.size_ = n - 1],
            "ok", i, {<<"data_", n>>}, 0)

\* iterator Erase(const_iterator pos), i = pos - cbegin().  fail = k > 0:
\* the k-th move assignment of std::move throws.
Erase(T, v, i, fail) ==
  LET n == Size(v)
      s == n - 1 - i
      m0 == Mem(v)
      done == IF 1 <= fail /\ fail <= s THEN fail - 1 ELSE s
      shifted == [j \in 1..Len(m0) |->
                    IF i < j /\ j <= i + done THEN m0[j + 1]
                    ELSE IF j = i + done + 1 /\ done >= 1 THEN MovedFrom(T, m0[j])
                    ELSE m0[j]]
  IN IF 1 <= fail /\ fail <= s
     THEN Result(WithMem(v, shifted), "throw", -1, {}, 0)
     ELSE Result([WithMem(v, DestroyN(shifted, n - 1, 1)) EXCEPT !.size_ = n - 1],
                 "ok", i, {<<"data_", n - 1>>}, 0)

\* ------------------------------------------------------------- the state
\* T: the element type of the instantiation; vec: the Vector objects;
\* alive: which of them are constructed; last: the last operation called,
\* the object(s) it was called on and how it ended.
VARIABLES T, vec, alive, last

vars == <<T, vec, alive, last>>

\* The invariant of the class: the slots [size_, capacity_) hold no object.
Intact(v) == \A i \in LiveSlots(v) : i < Size(v)

\* The program runs until undefined behaviour ends it or a call hangs, and
\* it is followed as long as every Vector is intact: each operation is
\* specified for Vectors that satisfy the invariant of the class.
Running ==
  /\ last.outcome \in {"ok", "throw"}
  /\ \A n \in Names : Intact(vec[n])

\* a block of n slots for object t fits the memory left by the other objects
Fits(t, n) == n + Capacity(vec[CHOOSE m \in Names : m # t]) <= MaxCap

\* does transferring an element to a new block throw for this T
TransferThrows(E) == IF TransferMoves(E) THEN MoveThrows(E) ELSE CtorThrows(E)

Log(op, this, other, outcome) ==
  [op |-> op, this |-> this, other |-> other, outcome |-> outcome]

\* an operation on the one object this; r is its Result
Apply(op, this, r) ==
  /\ vec' = [vec EXCEPT ![this] = r.v]
  /\ last' = Log(op, this, this, r.outcome)
  /\ UNCHANGED T

\* an operation on the two objects this and other; r is its Result2
Apply2(op, this, other, r) ==
  /\ vec' = [vec EXCEPT ![this] = r.this, ![other] = r.other]
  /\ last' = Log(op, this, other, r.outcome)
  /\ UNCHANGED T

\* an operation that does nothing (this == &rhs)
Skip(op, this) ==
  /\ vec' = vec
  /\ last' = Log(op, this, this, "ok")
  /\ UNCHANGED T

Init ==
  /\ T \in ETypes
  /\ vec = [n \in Names |-> VectorDefault]
  /\ alive = [n \in Names |-> TRUE]
  /\ last = Log("Vector()", "a", "a", "ok")

\* ---------------------------------------------------------- the actions
\* Vector v;
DoVectorDefault(t) ==
  /\ Running /\ ~alive[t]
  /\ alive' = [alive EXCEPT ![t] = TRUE]
  /\ Apply("Vector()", t, Result(VectorDefault, "ok", -1, {}, 0))

\* Vector v(size);
DoVectorSized(t) ==
  /\ Running /\ ~alive[t]
  /\ \E size \in {n \in 0..MaxCap : Fits(t, n)} :
       \E fail \in {0} \cup (IF CtorThrows(T) THEN 1..size ELSE {}) :
         LET r == VectorSized(size, fail)
         IN /\ alive' = [alive EXCEPT ![t] = (r.outcome = "ok")]
            /\ Apply("Vector(size)", t, r)

\* Vector v(other);
DoVectorCopy(t, s) ==
  /\ Running /\ ~alive[t] /\ alive[s] /\ Copyable(T)
  /\ Fits(t, Size(vec[s]))
  /\ \E fail \in {0} \cup (IF CtorThrows(T) THEN 1..Size(vec[s]) ELSE {}) :
       LET r == VectorCopy(vec[s], fail)
       IN /\ alive' = [alive EXCEPT ![t] = (r.outcome = "ok")]
          /\ vec' = [vec EXCEPT ![t] = r.v]
          /\ last' = Log("Vector(const&)", t, s, r.outcome)
          /\ UNCHANGED T

\* Vector v(std::move(other));
DoVectorMove(t, s) ==
  /\ Running /\ ~alive[t] /\ alive[s]
  /\ alive' = [alive EXCEPT ![t] = TRUE]
  /\ Apply2("Vector(&&)", t, s, VectorMove(vec[s]))

\* the end of v's lifetime
DoVectorDtor(t) ==
  /\ Running /\ alive[t]
  /\ alive' = [alive EXCEPT ![t] = FALSE]
  /\ Apply("~Vector", t, VectorDtor(vec[t]))

\* t = s;
DoCopyAssign(t, s) ==
  /\ Running /\ alive[t] /\ alive[s] /\ Copyable(T)
  /\ UNCHANGED alive
  /\ IF t = s THEN Skip("operator=(const&)", t)
     ELSE /\ Size(vec[s]) > Capacity(vec[t]) => Fits(t, Size(vec[s]))
          /\ \E fail \in {0} \cup (IF CtorThrows(T) THEN 1..Size(vec[s]) ELSE {}) :
               Apply2("operator=(const&)", t, s,
                      CopyAssign(vec[t], vec[s], fail))

\* t = std::move(s);
DoMoveAssign(t, s) ==
  /\ Running /\ alive[t] /\ alive[s]
  /\ UNCHANGED alive
  /\ IF t = s THEN Skip("operator=(&&)", t)
     ELSE Apply2("operator=(&&)", t, s, MoveAssign(vec[t], vec[s]))

\* t.Swap(s);
DoSwap(t, s) ==
  /\ Running /\ alive[t] /\ alive[s]
  /\ UNCHANGED alive
  /\ IF t = s THEN Skip("Swap", t)
     ELSE Apply2("Swap", t, s, Swap(vec[t], vec[s]))

\* t.Reserve(new_capacity);
DoReserve(t) ==
  /\ Running /\ alive[t]
  /\ UNCHANGED alive
  /\ \E new_capacity \in {n \in 0..MaxCap : Fits(t, n)} :
       \E fail \in {0} \cup (IF new_capacity > Capacity(vec[t]) /\ TransferThrows(T)
                             THEN 1..Size(vec[t]) ELSE {}) :
         Apply("Reserve", t,
               Reserve(T, vec[t], new_capacity, fail))

\* t.Resize(new_size);
DoResize(t) ==
  /\ Running /\ alive[t]
  /\ UNCHANGED alive
  /\ \E new_size \in 0..MaxCap :
       LET v == vec[t]
           nt == ResizeTransfers(v, new_size)
       IN /\ new_size > Capacity(v) => Fits(t, ResizeCapacity(v) * 2)
          /\ \E fail \in {0}
                 \cup (IF TransferThrows(T) THEN 1..nt ELSE {})
                 \cup (IF CtorThrows(T) /\ new_size > Size(v)
                       THEN (nt + 1)..(nt + new_size - Size(v)) ELSE {}) :
               Apply("Resize", t,
                     Resize(T, v, new_size, fail))

\* t.PushBack(x); t.EmplaceBack(x);
DoEmplaceBack(t) ==
  /\ Running /\ alive[t]
  /\ UNCHANGED alive
  /\ LET v == vec[t]
         grows == ~(Size(v) < Capacity(v))
     IN /\ grows => Fits(t, GrownCapacity(v))
        /\ \E x \in Values :
             \E fail \in {0}
                 \cup (IF CtorThrows(T) THEN {1} ELSE {})
                 \cup (IF grows /\ TransferThrows(T)
                       THEN 2..(Size(v) + 1) ELSE {}) :
               Apply("EmplaceBack", t,
                     EmplaceBack(T, v, x, fail))

\* t.PopBack(); the contract: t is not empty
DoPopBack(t) ==
  /\ Running /\ alive[t]
  /\ UNCHANGED alive
  /\ Size(vec[t]) > 0
  /\ \E ub \in {FALSE} \cup {PopBackHasUB(T, vec[t])} :
       Apply("PopBack", t, PopBack(T, vec[t], ub))

\* t.Emplace(t.begin() + pos_ind, x); t.Insert(...); the contract:
\* begin() <= pos <= end()
DoEmplace(t) ==
  /\ Running /\ alive[t]
  /\ UNCHANGED alive
  /\ LET v == vec[t]
         spare == Size(v) < Capacity(v)
     IN /\ ~spare => Fits(t, GrownCapacity(v))
        /\ \E pos_ind \in 0..Size(v), x \in Values :
             LET s == EmplaceShifts(v, pos_ind)
                 fails ==
                   IF spare
                   THEN (IF MoveThrows(T) /\ Size(v) > 0 THEN 1..(s + 1) ELSE {})
                        \cup (IF CtorThrows(T) THEN {s + 2} ELSE {})
                   ELSE (IF CtorThrows(T) THEN {1} ELSE {})
                        \cup (IF TransferThrows(T) THEN 2..(Size(v) + 1) ELSE {})
             IN \/ \E fail \in {0} \cup fails :
                     Apply("Emplace", t,
                           Emplace(T, v, pos_ind, x, fail, FALSE))
                \/ /\ spare /\ EmplaceSpareHasUB(v, pos_ind)
                   /\ Apply("Emplace", t,
                            Emplace(T, v, pos_ind, x, 0, TRUE))

\* t.Erase(t.begin() + i); the contract: begin() <= pos < end()
DoErase(t) ==
  /\ Running /\ alive[t]
  /\ UNCHANGED alive
  /\ \E i \in 0..(Size(vec[t]) - 1) :
       \E fail \in {0} \cup (IF MoveThrows(T)
                             THEN 1..(Size(vec[t]) - 1 - i) ELSE {}) :
         Apply("Erase", t, Erase(T, vec[t], i, fail))

Next ==
  \E t \in Names :
    \/ DoVectorDefault(t)
    \/ DoVectorSized(t)
    \/ DoVectorDtor(t)
    \/ DoReserve(t)
    \/ DoResize(t)
    \/ DoEmplaceBack(t)
    \/ DoPopBack(t)
    \/ DoEmplace(t)
    \/ DoErase(t)
    \/ \E s \in Names :
         \/ DoVectorCopy(t, s)
         \/ DoVectorMove(t, s)
         \/ DoCopyAssign(t, s)
         \/ DoMoveAssign(t, s)
         \/ DoSwap(t, s)

Spec == Init /\ [][Next]_vars

\* ------------------------------------------------------------ the claims
\* In the formulas below \A r \in {e} : ... names the value of e.
\* the objects an operation may be called on next
Callable(n) == Running /\ alive[n]

\* n may be called and is the only object alive.  Whatever state a Vector
\* is in, the destructor of the other object can be called next and
\* leaves it in that state: every state a Vector reaches, it also reaches
\* alone.
Alone(n) == Callable(n) /\ \A m \in Names \ {n} : ~alive[m]

InsertAt(q, p, x) == SubSeq(q, 1, p) \o <<x>> \o SubSeq(q, p + 1, Len(q))
RemoveAt(q, p) == SubSeq(q, 1, p) \o SubSeq(q, p + 2, Len(q))

\* C1: after every completed operation, for every Vector, exactly the slots
\* with index in [0, Size()) hold a live element and no slot with index in
\* [Size(), Capacity()) does.
C1_LiveExactlyBelowSize ==
  last.outcome = "ok" =>
    \A n \in Names :
      alive[n] => LiveSlots(vec[n]) = 0..(Size(vec[n]) - 1)

\* C2: PopBack on a non-empty Vector destructs exactly the element at index
\* Size() - 1, touches no other slot, decrements Size() by one and leaves
\* the other elements and the capacity unchanged.
C2_PopBackDestroysLast ==
  \A n \in Names :
    (Callable(n) /\ Size(vec[n]) > 0) =>
      \A ub \in {FALSE} \cup {PopBackHasUB(T, vec[n])} :
        LET v == vec[n]
            r == PopBack(T, v, ub)
        IN /\ r.outcome = "ok"
           /\ r.destroyed = {<<"data_", Size(v) - 1>>}
           /\ Size(r.v) = Size(v) - 1
           /\ Capacity(r.v) = Capacity(v)
           /\ Mem(r.v) = [Mem(v) EXCEPT ![Size(v)] = Raw]

\* C3: for every Vector and every new_size > Size(), Resize(new_size)
\* returns: the call ends, and when no element operation throws it ends
\* with Size() = new_size and Capacity() >= new_size.
C3_ResizeTerminates ==
  \A n \in Names :
    Callable(n) =>
      \A new_size \in (Size(vec[n]) + 1)..MaxCap :
        LET r == Resize(T, vec[n], new_size, 0)
        IN /\ r.outcome = "ok"
           /\ Size(r.v) = new_size
           /\ Capacity(r.v) >= new_size

\* the sizes, capacities and elements seen after each of the appends xs
\* the Vector after PushBack of each of xs in turn
RECURSIVE PushAll(_, _, _)
PushAll(E, v, xs) ==
  IF xs = << >> THEN v
  ELSE PushAll(E, EmplaceBack(E, v, Head(xs), 0).v, Tail(xs))

RECURSIVE PushProgress(_, _, _)
PushProgress(E, v, xs) ==
  IF xs = << >> THEN << >>
  ELSE LET w == EmplaceBack(E, v, Head(xs), 0).v
       IN <<[size |-> Size(w), capacity |-> Capacity(w), elems |-> Elems(w)]>>
          \o PushProgress(E, w, Tail(xs))

\* C4: after a Vector is moved from, by move construction or by move
\* assignment, it has Size() = 0, holds no live element, and appends to it
\* give the sizes, capacities and elements they give on a default-
\* constructed Vector.
C4_MovedFromIsFresh ==
  (last.op \in {"Vector(&&)", "operator=(&&)"} /\ last.this # last.other) =>
    LET src == vec[last.other]
    IN /\ Size(src) = 0
       /\ LiveSlots(src) = {}
       /\ \A k \in 1..NumPush : \A xs \in [1..k -> Values] :
            PushProgress(T, src, xs) = PushProgress(T, VectorDefault, xs)

\* C5: after move construction or move assignment of a RawMemory, the
\* destination has the source's former address and capacity (and so its
\* slots) and the source is {nullptr, 0}, whatever the destination held.
C5_RawMoveEmptiesSource ==
  \A n \in Names :
    Callable(n) =>
      /\ RawMoveCtor(vec[n].data_) = <<vec[n].data_, RawMemoryNull>>
      /\ \A m \in Names :
           (alive[m] /\ m # n) =>
             RawMoveAssign(vec[m].data_, vec[n].data_)
               = <<vec[n].data_, RawMemoryNull>>

\* the calls that grow a Vector v by reallocation and whose k-th element
\* transfer throws: Reserve beyond the capacity, and, when v is full,
\* EmplaceBack and Emplace at each position (1 is the new element's
\* construction)
FailedGrowths(E, v) ==
  {Reserve(E, v, c, k) : c \in (Capacity(v) + 1)..(Capacity(v) + 2),
                         k \in 1..Size(v)}
  \cup (IF Size(v) < Capacity(v) THEN {}
        ELSE {EmplaceBack(E, v, x, k + 1) : x \in Values, k \in 1..Size(v)}
             \cup {Emplace(E, v, p, x, k + 1, FALSE) :
                     p \in 0..Size(v), x \in Values, k \in 1..Size(v)})

\* the step is a call on n that grows it by reallocation and throws:
\* a Reserve, or an EmplaceBack or Emplace on a full Vector
GrowthThrows(n) ==
  /\ last'.this = n /\ last'.outcome = "throw"
  /\ \/ last'.op = "Reserve"
     \/ /\ last'.op \in {"EmplaceBack", "Emplace"}
        /\ Size(vec[n]) = Capacity(vec[n])

\* C6 as claimed: if an element operation throws while a Vector grows by
\* reallocation, the Vector is exactly as before the call, for every
\* element type, those that are moved because they cannot be copied
\* included.
C6_FailedGrowthKeepsAll ==
  [][\A n \in Names : GrowthThrows(n) => vec'[n] = vec[n]]_vars

\* C6 as amended: if an element operation throws while a Vector grows by
\* reallocation, the size and the capacity are as before the call, and so
\* is every element when the type can be copied.
C6_FailedGrowthKeepsCopied ==
  [][\A n \in Names :
       GrowthThrows(n) =>
         /\ Size(vec'[n]) = Size(vec[n])
         /\ Capacity(vec'[n]) = Capacity(vec[n])
         /\ Copyable(T) => vec'[n] = vec[n]]_vars

\* a transfer by copy has failed in a Reserve of a Vector of two elements
\* or more, none of them the default value
C6_Witness ==
  /\ T = "Copying"
  /\ last.op = "Reserve" /\ last.outcome = "throw"
  /\ Size(vec[last.this]) >= 2
  /\ \A i \in 1..Size(vec[last.this]) : Mem(vec[last.this])[i] # Default

\* C7: if an element transfer fails during reallocation-based growth, no
\* object constructed in the new block is left undestructed when the
\* error reaches the caller.
C7_FailedGrowthLeaksNothing ==
  \A n \in Names :
    (Callable(n) /\ TransferThrows(T)) =>
      \A r \in FailedGrowths(T, vec[n]) :
        r.outcome = "throw" /\ r.leaked = 0

\* the ways Emplace(pos_ind, x) on v may go when nothing throws
EmplaceRuns(E, v, pos_ind, x) ==
  {Emplace(E, v, pos_ind, x, 0, ub) :
     ub \in {FALSE} \cup {Size(v) < Capacity(v) /\ EmplaceSpareHasUB(v, pos_ind)}}

\* C8: for every Vector S, every p in [0, Size()] and every v, Emplace at p
\* yields S[0..p), v, S[p..Size()), with Size() one more, and returns the
\* position of index p, which holds v.
C8_EmplaceInserts ==
  \A n \in Names :
    Callable(n) =>
      \A p \in 0..Size(vec[n]), x \in Values :
        \A r \in EmplaceRuns(T, vec[n], p, x) :
          /\ r.outcome = "ok"
          /\ Size(r.v) = Size(vec[n]) + 1
          /\ Elems(r.v) = InsertAt(Elems(vec[n]), p, x)
          /\ r.ret = p

\* C9: for every Vector S, every p in [0, Size()] and every v, erasing at
\* the position Insert(p, v) returns gives back the size and the elements
\* of S.
C9_EraseUndoesInsert ==
  \A n \in Names :
    Callable(n) =>
      \A p \in 0..Size(vec[n]), x \in Values :
        \A r \in EmplaceRuns(T, vec[n], p, x) :
          /\ r.outcome = "ok"
          /\ LET e == Erase(T, r.v, r.ret, 0)
             IN /\ e.outcome = "ok"
                /\ Size(e.v) = Size(vec[n])
                /\ Elems(e.v) = Elems(vec[n])

\* C10: for every non-empty Vector S and every p in [0, Size()), Erase(p)
\* yields S[0..p), S[p+1..Size()), with Size() one less and the capacity
\* unchanged, destructs exactly the vacated last slot, and returns the
\* position of index p: that of the element that followed the erased one,
\* or end() if the last element was erased.
C10_EraseRemoves ==
  \A n \in Names :
    Alone(n) =>
      \A p \in 0..(Size(vec[n]) - 1) :
        \A v \in {vec[n]}, r \in {Erase(T, vec[n], p, 0)} :
           /\ r.outcome = "ok"
           /\ Size(r.v) = Size(v) - 1
           /\ Capacity(r.v) = Capacity(v)
           /\ Elems(r.v) = RemoveAt(Elems(v), p)
           /\ r.destroyed = {<<"data_", Size(v) - 1>>}
           /\ LiveSlots(r.v) = 0..(Size(v) - 2)
           /\ r.ret = p
           /\ IF p < Size(v) - 1 THEN Mem(r.v)[r.ret + 1] = Mem(v)[p + 2]
              ELSE r.ret = Size(r.v)

\* an element that is not the last has been erased from a Vector that
\* still holds two different elements
C10_Witness ==
  /\ last.op = "Erase" /\ last.outcome = "ok"
  /\ LET v == vec[last.this]
     IN /\ Size(v) >= 2 /\ Size(v) < Capacity(v)
        /\ Mem(v)[1] # Mem(v)[2]
        /\ ~Live(Mem(v)[Size(v) + 1])

\* the size and capacity of v, then those after each of k appends of x
PushRun(E, v, x, k) ==
  <<[size |-> Size(v), capacity |-> Capacity(v), elems |-> Elems(v)]>>
  \o PushProgress(E, v, [i \in 1..k |-> x])

\* the least power of two that is at least n (n >= 1)
RECURSIVE CeilPow2(_)
CeilPow2(n) == IF n <= 1 THEN 1 ELSE 2 * CeilPow2((n + 1) \div 2)

\* C11: over successive PushBack/EmplaceBack calls the capacity changes
\* only when Size() = Capacity() before the append, and then to 1 if it
\* was 0 and to twice its value otherwise; it never decreases and is at
\* least Size() after every append; from a default-constructed Vector it
\* takes exactly the values 0, 1, 2, 4, 8, ...
C11_CapacityDoubles ==
  \A n \in Names :
    Alone(n) =>
      \A x \in Values :
        \A run \in {PushRun(T, vec[n], x, NumPush)} :
           \A i \in 1..NumPush :
             \A b \in {run[i]}, a \in {run[i + 1]} :
                /\ a.capacity = IF b.size < b.capacity THEN b.capacity
                                ELSE IF b.capacity = 0 THEN 1
                                ELSE 2 * b.capacity
                /\ a.capacity >= b.capacity
                /\ a.capacity >= a.size
                /\ a.size = b.size + 1
                /\ vec[n] = VectorDefault => a.capacity = CeilPow2(i)

\* three appends to a default-constructed Vector have brought its
\* capacity from 0 through 1 and 2 to 4
C11_Witness ==
  /\ last.op = "EmplaceBack" /\ last.outcome = "ok"
  /\ Size(vec[last.this]) = 3 /\ Capacity(vec[last.this]) = 4
  /\ \A i \in 1..3 : Mem(vec[last.this])[i] \in Values
  /\ PushRun(T, VectorDefault, 1, 3)[4].capacity = 4

\* C12: for every Vector S and value x, PushBack/EmplaceBack yields S
\* followed by x with Size() one more, with or without reallocation, and
\* returns the element at the new last index; pushing 1, 2, 3 onto an
\* empty Vector gives [1, 2, 3] with size 3 and capacity 4.
C12_PushBackAppends ==
  \A n \in Names :
    Alone(n) =>
      /\ \A x \in Values :
           \A v \in {vec[n]}, r \in {EmplaceBack(T, vec[n], x, 0)} :
              /\ r.outcome = "ok"
              /\ Size(r.v) = Size(v) + 1
              /\ Elems(r.v) = Append(Elems(v), x)
              /\ r.ret = Size(r.v) - 1
              /\ Mem(r.v)[r.ret + 1] = x
      /\ vec[n] = VectorDefault =>
           PushProgress(T, vec[n], <<1, 2, 3>>)[3] =
             [size |-> 3, capacity |-> 4, elems |-> <<1, 2, 3>>]

\* an append has reallocated a Vector of two elements, the first of them
\* a default value, into a block of four slots
C12_Witness ==
  /\ last.op = "EmplaceBack" /\ last.outcome = "ok"
  /\ LET v == vec[last.this]
     IN /\ Size(v) = 3 /\ Capacity(v) = 4
        /\ Mem(v)[1] = Default /\ Mem(v)[3] \in Values
        /\ ~Live(Mem(v)[4])

\* C13: for every Vector and every n, a Reserve(n) that returns leaves
\* Size() and every element unchanged; if n <= Capacity() it changes
\* nothing at all, otherwise the capacity becomes exactly n.
C13_ReserveFrame ==
  \A n \in Names :
    Alone(n) =>
      \A new_capacity \in 0..(Capacity(vec[n]) + 2) :
        \A v \in {vec[n]}, r \in {Reserve(T, vec[n], new_capacity, 0)} :
           /\ r.outcome = "ok"
           /\ Size(r.v) = Size(v)
           /\ Elems(r.v) = Elems(v)
           /\ IF new_capacity <= Capacity(v)
              THEN r.v = v /\ r.destroyed = {}
              ELSE Capacity(r.v) = new_capacity

\* a Reserve has moved two different elements from a block of two slots
\* to one of three
C13_Witness ==
  /\ last.op = "Reserve" /\ last.outcome = "ok"
  /\ LET v == vec[last.this]
     IN /\ Size(v) = 2 /\ Capacity(v) = 3
        /\ Mem(v)[1] # Mem(v)[2]

\* C14: for every Vector S and every n, a Resize(n) that completes leaves
\* the elements at [0, min(old size, n)) unchanged, makes every element at
\* [old size, n) the default value and sets Size() to n; when n is less
\* than the old size the trailing elements are destructed and the
\* capacity is unchanged.  [1, 2, 3] resized to 5 is [1, 2, 3, default,
\* default], then resized to 2 is [1, 2] with the capacity still >= 5.
C14_ResizeResult ==
  \A n \in Names :
    Alone(n) =>
      /\ \A new_size \in 0..(2 * Capacity(vec[n]) + 2) :
           \A v \in {vec[n]}, r \in {Resize(T, vec[n], new_size, 0)},
              kept \in {Min(Size(vec[n]), new_size)} :
              /\ r.outcome \in {"ok", "hang"}
              /\ new_size <= 2 * Capacity(v) /\ Size(v) > 0 => r.outcome = "ok"
              /\ r.outcome = "ok" =>
                   /\ Size(r.v) = new_size
                   /\ SubSeq(Elems(r.v), 1, kept) = SubSeq(Elems(v), 1, kept)
                   /\ \A i \in (Size(v) + 1)..new_size : Mem(r.v)[i] = Default
                   /\ LiveSlots(r.v) = 0..(new_size - 1)
                   /\ new_size < Size(v) =>
                        /\ Capacity(r.v) = Capacity(v)
                        /\ r.destroyed =
                             {<<"data_", i>> : i \in new_size..(Size(v) - 1)}
      /\ vec[n] = VectorDefault =>
           \A r5 \in {Resize(T, PushAll(T, vec[n], <<1, 2, 3>>), 5, 0)} :
           \A r2 \in {Resize(T, r5.v, 2, 0)} :
              /\ r5.outcome = "ok" /\ r2.outcome = "ok"
              /\ Elems(r5.v) = <<1, 2, 3, Default, Default>>
              /\ Elems(r2.v) = <<1, 2>>
              /\ Capacity(r2.v) = Capacity(r5.v) /\ Capacity(r2.v) >= 5

\* a Resize has grown a Vector of one element that is not the default
\* value by a default element, reallocating
C14_Witness ==
  /\ last.op = "Resize" /\ last.outcome = "ok"
  /\ LET v == vec[last.this]
     IN /\ Size(v) = 2 /\ Capacity(v) = 2
        /\ Mem(v)[1] \in Values /\ Mem(v)[2] = Default

\* the pairs (a, b) of different Vectors for a = b
AssignPairs ==
  {p \in Names \X Names : p[1] # p[2] /\ Callable(p[1]) /\ Callable(p[2])}

\* C15: a copy assignment a = b that returns makes a equal to b element
\* by element with a.Size() = b.Size() and leaves b unchanged; when
\* b.Size() <= a.Capacity() it is done in a's block and a.Capacity() is
\* unchanged, whether a shrinks or grows; when b.Size() > a.Capacity() a
\* gets a fresh block whose capacity is exactly b.Size().
C15_CopyAssignCopies ==
  Copyable(T) =>
    \A p \in AssignPairs :
      \A a \in {vec[p[1]]}, b \in {vec[p[2]]},
         r \in {CopyAssign(vec[p[1]], vec[p[2]], 0)} :
         /\ r.outcome = "ok"
         /\ Size(r.this) = Size(b)
         /\ Elems(r.this) = Elems(b)
         /\ LiveSlots(r.this) = 0..(Size(b) - 1)
         /\ r.other = b
         /\ r.leaked = 0
         /\ IF Size(b) <= Capacity(a)
            THEN /\ Capacity(r.this) = Capacity(a)
                 /\ Buffer(r.this) = Buffer(a)
                 /\ r.destroyed = {<<"data_", i>> : i \in Size(b)..(Size(a) - 1)}
            ELSE Capacity(r.this) = Size(b)

\* a copy assignment has been done in place: the target holds the one
\* element of the source in a block of three slots
C15_Witness ==
  /\ last.op = "operator=(const&)" /\ last.outcome = "ok"
  /\ last.this # last.other
  /\ LET a == vec[last.this]
         b == vec[last.other]
     IN /\ Size(a) = 1 /\ Capacity(a) = 3
        /\ Size(b) = 1 /\ Mem(b)[1] \in Values
        /\ Elems(a) = Elems(b)

C17_SizeWithinCapacity ==
  \A n \in Names :
    alive[n] =>
      /\ 0 <= Size(vec[n])
      /\ Size(vec[n]) <= Capacity(vec[n])
      /\ Len(Mem(vec[n])) = Capacity(vec[n])
      /\ Buffer(vec[n]) = Null <=> Capacity(vec[n]) = 0

\* a move assignment has given a target that owned a block of two slots
\* the two elements of its source, which is left with that block
C17_Witness ==
  /\ last.op = "operator=(&&)" /\ last.this # last.other
  /\ Size(vec[last.this]) = 2 /\ Capacity(vec[last.this]) = 2
  /\ Size(vec[last.other]) = 0 /\ Capacity(vec[last.other]) = 2

\* C18: for every N >= 0 a sized construction Vector(N) that returns
\* yields Size() = N and Capacity() = N (exactly N slots, a null block
\* when N = 0) with every element at [0, N) the default value.
C18_SizedConstruction ==
  \A n \in Names :
    (Running /\ ~alive[n]) =>
      \A N \in 0..MaxCap :
        LET r == VectorSized(N, 0)
        IN /\ r.outcome = "ok"
           /\ Size(r.v) = N
           /\ Capacity(r.v) = N
           /\ Len(Mem(r.v)) = N
           /\ Buffer(r.v) = Null <=> N = 0
           /\ \A i \in 1..N : Mem(r.v)[i] = Default
           /\ LiveSlots(r.v) = 0..(N - 1)

\* a Vector has been constructed with three elements
C18_Witness ==
  /\ last.op = "Vector(size)" /\ last.outcome = "ok"
  /\ alive[last.this]
  /\ Size(vec[last.this]) = 3 /\ Capacity(vec[last.this]) = 3
  /\ Elems(vec[last.this]) = <<Default, Default, Default>>

\* The slots (indices from 0) the spare-capacity path of Emplace touches:
\* line 240 reads *(end() - 1) and constructs at end(); line 241 reads
\* [pos_ind, Size() - 1) and move-assigns into [pos_ind + 1, Size());
\* line 242 move-assigns into data_[pos_ind].
SpareReadsFirst(v) == Size(v) - 1
SpareConstructs(v) == Size(v)
SpareShiftReads(v, pos_ind) == pos_ind..(Size(v) - 2)
SpareShiftAssigns(v, pos_ind) == (pos_ind + 1)..(Size(v) - 1)
\* the slots that hold an object once line 240 has run
SpareLiveAfterFirst(v) == LiveSlots(v) \cup {SpareConstructs(v)}

\* C19: with Size() < Capacity(), for every position in [0, Size()] every
\* slot Emplace reads or move-assigns into holds an object at that moment
\* and the slot it constructs into holds none; the range given to
\* std::move_backward is a range, so that no other slot is touched.
C19_SparePathTouchesLiveSlots ==
  \A n \in Names :
    (Callable(n) /\ Size(vec[n]) < Capacity(vec[n])) =>
      \A pos_ind \in 0..Size(vec[n]) :
        LET v == vec[n]
        IN /\ SpareReadsFirst(v) \in LiveSlots(v)
           /\ SpareConstructs(v) \notin LiveSlots(v)
           /\ ~EmplaceSpareHasUB(v, pos_ind)
           /\ SpareShiftReads(v, pos_ind) \subseteq SpareLiveAfterFirst(v)
           /\ SpareShiftAssigns(v, pos_ind) \subseteq SpareLiveAfterFirst(v)
           /\ pos_ind \in SpareLiveAfterFirst(v)
           /\ \A x \in Values :
                \A r \in EmplaceRuns(T, v, pos_ind, x) : r.outcome = "ok"

\* C20: if an element operation throws in the spare-capacity path of
\* Emplace, once the last element has been duplicated into the slot at
\* Size(), then when the error reaches the caller Size() is unchanged and
\* no slot at an index >= Size() holds an object.
C20_SparePathFailureKeepsInvariant ==
  \A n \in Names :
    (Callable(n) /\ Size(vec[n]) < Capacity(vec[n]) /\ CtorThrows(T)) =>
      \A pos_ind \in 0..(Size(vec[n]) - 1), x \in Values :
        LET v == vec[n]
            r == Emplace(T, v, pos_ind, x, EmplaceShifts(v, pos_ind) + 2, FALSE)
        IN /\ r.outcome = "throw"
           /\ Size(r.v) = Size(v)
           /\ Intact(r.v)

====
